---- MODULE Spec2Model ----
(***************************************************************************)
(* rdtp: the retransmission controller (atc/atc.go) and the per-connection *)
(* socket (service/ports/socket/socket.go).  socket.go holds two versions  *)
(* of the socket: the one with an inbound queue, a shutdown channel and a  *)
(* Run loop (lines 1-214), and the one that owns an AirTrafficCtrl and     *)
(* starts its pumps in NewSocket (lines 216-323).                          *)
(***************************************************************************)
EXTENDS Integers, Sequences, FiniteSets, TLC

(***************************************************************************)
(* Bounds of the model.                                                    *)
(***************************************************************************)
MaxSeq == 1
MaxOps == 3
MaxDeliver == 2
MaxReads   == 1
MaxCloses  == 2
MaxWaits   == 1

(***************************************************************************)
(* Retransmission controller: atc/atc.go                                   *)
(***************************************************************************)
VARIABLES
    inFlight,     \* atc.inFlight: sequence number -> packet
    mu,           \* holder of the embedded sync.RWMutex, or NoThread
    thr,          \* each caller's position inside Send / Ack
    nOps,         \* number of Send / Ack calls started so far
    txCalls,      \* per sequence number, how often fwFunc was invoked
    outstanding   \* packets fwFunc transmitted and no Ack has covered since

atcVars == <<inFlight, mu, thr, nOps, txCalls, outstanding>>

\* Socket with a Run loop: service/ports/socket/socket.go, lines 22-44
VARIABLES
    inbound,        \* s.inbound: the packets buffered in the channel
    inboundClosed,  \* close(s.inbound) has run
    delivered,      \* every packet Deliver has enqueued, in order
    shutdownBuf,    \* number of values buffered in s.shutdown
    shutdownClosed, \* close(s.shutdown) has run
    appClosed,      \* number of s.application.Close() calls
    appEOF,         \* the application has closed its end of the stream
    appWritten,     \* payloads written to s.application, in order
    rxBytes,        \* s.rxBytes (uint32; the bounds keep it far from wrapping)
    txBytes,        \* s.txBytes (uint32; the bounds keep it far from wrapping)
    runPc,          \* position of Run
    sigsBuf,        \* number of signals buffered in Run's sigs channel
    rxdoneBuf,      \* number of values buffered in Run's rxdone
    txdoneBuf,      \* number of values buffered in Run's txdone
    rxPc,           \* position of the receive pump
    rxCur,          \* the packet the receive pump has taken
    txPc,           \* position of the transmit pump
    txN,            \* the n the transmit pump's Read returned
    nReads,         \* number of Reads that returned data so far
    closePc,        \* position of each Close call
    wcpPc,          \* position of WaitForControlPacket
    wcpWant,        \* its syn, ack, fin, err arguments
    wcpTimer,       \* time.After(timeout) has fired
    wcpGot,         \* the packet it took from s.inbound
    wcpRet,         \* what it returned
    nWaits,         \* number of WaitForControlPacket calls so far
    panic,          \* the run-time panic that ended the process, if any
    cfg,            \* the Config passed to New
    newRet          \* what New returned: "socket" or its error

sockVars == <<inbound, inboundClosed, delivered, shutdownBuf, shutdownClosed,
              appClosed, appEOF, appWritten, rxBytes, txBytes, runPc, sigsBuf,
              rxdoneBuf, txdoneBuf, rxPc, rxCur, txPc, txN, nReads,
              closePc, wcpPc, wcpWant, wcpTimer, wcpGot, wcpRet, nWaits,
              panic, cfg, newRet>>

\* Socket that owns a controller: service/ports/socket/socket.go, lines
\* 232-244
VARIABLES
    sockUp,       \* NewSocket has returned the socket, its pumps started
    netIn,        \* number of packets the network layer has sent on s.In
    received,     \* the packets the receiver took from s.In, in order
    rcvPc,        \* position of the receiver
    rcvCur,       \* the packet the receiver is processing
    sndPc,        \* position of the sender
    sndN,         \* the n the sender's Read returned
    pfSeq,        \* the packet factory's current sequence number
    wire,         \* the packets handed to nw.Send, in order
    v2App,        \* payloads written to the socket's application stream
    v2AppClosed,  \* Close has closed the application stream
    v2Rx,         \* s.rxBytes
    v2Tx          \* s.txBytes

v2Vars == <<sockUp, netIn, received, rcvPc, rcvCur, sndPc, sndN, pfSeq, wire,
            v2App, v2AppClosed, v2Rx, v2Tx>>

Threads  == {"t1", "t2"}
NoThread == "none"
SeqNos   == 0..MaxSeq

\* An outbound packet: a control packet has no payload, and shares its
\* sequence number with the data packet that follows it.
OutPackets == [SeqNo : SeqNos, Payload : {<<>>, <<"a">>}]
NoPkt      == [SeqNo |-> 0 - 1, Payload |-> <<>>]

EmptyMap == [s \in {} |-> NoPkt]

IdleThread == [pc |-> "idle", pkt |-> NoPkt, num |-> 0 - 1, ret |-> "none",
               fresh |-> FALSE, removed |-> NoPkt, wasOut |-> FALSE]

\* atc.inFlight[pck.SeqNo] = pck
RegisterSkip(m, p) == m
Register(m, p) ==
    [s \in DOMAIN m \cup {p.SeqNo} |-> IF s = p.SeqNo THEN p ELSE m[s]]

\* delete(atc.inFlight, num)
DeleteNone(m, n) == m
Delete(m, n) == [s \in DOMAIN m \ {n} |-> m[s]]

InitATC ==
    /\ inFlight = EmptyMap
    /\ mu = NoThread
    /\ thr = [t \in Threads |-> IdleThread]
    /\ nOps = 0
    /\ txCalls = [s \in SeqNos |-> 0]
    /\ outstanding = {}

\* A caller enters Send(pck).
SendCall(t, p) ==
    /\ thr[t].pc = "idle"
    /\ nOps < MaxOps
    /\ nOps' = nOps + 1
    /\ thr' = [thr EXCEPT ![t] = [IdleThread EXCEPT !.pc = "send_lock", !.pkt = p]]
    /\ UNCHANGED <<sockVars, v2Vars, inFlight, mu, txCalls, outstanding>>

\* atc.Lock()
SendLockNoWait(t) ==
    /\ thr[t].pc = "send_lock"
    /\ mu' = t
    /\ thr' = [thr EXCEPT ![t].pc = "send_reg"]
    /\ UNCHANGED <<sockVars, v2Vars, inFlight, nOps, txCalls, outstanding>>
SendLock(t) ==
    /\ thr[t].pc = "send_lock"
    /\ mu = NoThread
    /\ mu' = t
    /\ thr' = [thr EXCEPT ![t].pc = "send_reg"]
    /\ UNCHANGED <<sockVars, v2Vars, inFlight, nOps, txCalls, outstanding>>

\* atc.inFlight[pck.SeqNo] = pck
SendRegister(t) ==
    /\ thr[t].pc = "send_reg"
    /\ inFlight' = Register(inFlight, thr[t].pkt)
    /\ thr' = [thr EXCEPT ![t].pc = "send_fw",
                          ![t].fresh = (thr[t].pkt.SeqNo \notin DOMAIN inFlight)]
    /\ UNCHANGED <<sockVars, v2Vars, mu, nOps, txCalls, outstanding>>

\* err := atc.fwFunc(pck): the transmit callback runs with the lock held and
\* either transmits the packet or fails.
SendFw(t, ok) ==
    /\ thr[t].pc = "send_fw"
    /\ txCalls' = [txCalls EXCEPT ![thr[t].pkt.SeqNo] = @ + 1]
    /\ outstanding' = IF ok THEN outstanding \cup {thr[t].pkt} ELSE outstanding
    /\ thr' = [thr EXCEPT ![t].pc = "send_ret",
                          ![t].ret = IF ok THEN "nil" ELSE "send error"]
    /\ UNCHANGED <<sockVars, v2Vars, inFlight, mu, nOps>>

\* return, and the deferred atc.Unlock()
SendReturn(t) ==
    /\ thr[t].pc = "send_ret"
    /\ mu' = NoThread
    /\ thr' = [thr EXCEPT ![t].pc = "idle"]
    /\ UNCHANGED <<sockVars, v2Vars, inFlight, nOps, txCalls, outstanding>>

\* A caller enters Ack(num).
AckCall(t, n) ==
    /\ thr[t].pc = "idle"
    /\ nOps < MaxOps
    /\ nOps' = nOps + 1
    /\ thr' = [thr EXCEPT ![t] = [IdleThread EXCEPT !.pc = "ack_lock", !.num = n]]
    /\ UNCHANGED <<sockVars, v2Vars, inFlight, mu, txCalls, outstanding>>

\* atc.Lock()
AckLock(t) ==
    /\ thr[t].pc = "ack_lock"
    /\ mu = NoThread
    /\ mu' = t
    /\ thr' = [thr EXCEPT ![t].pc = "ack_del"]
    /\ UNCHANGED <<sockVars, v2Vars, inFlight, nOps, txCalls, outstanding>>

\* delete(atc.inFlight, num)
AckDelete(t) ==
    /\ thr[t].pc = "ack_del"
    /\ inFlight' = Delete(inFlight, thr[t].num)
    /\ outstanding' = {p \in outstanding : p.SeqNo # thr[t].num}
    /\ thr' = [thr EXCEPT ![t].pc = "ack_ret",
                          ![t].removed = IF thr[t].num \in DOMAIN inFlight
                                         THEN inFlight[thr[t].num] ELSE NoPkt,
                          ![t].wasOut = \E p \in outstanding : p.SeqNo = thr[t].num]
    /\ UNCHANGED <<sockVars, v2Vars, mu, nOps, txCalls>>

\* return (Ack has no result), and the deferred atc.Unlock()
AckReturn(t) ==
    /\ thr[t].pc = "ack_ret"
    /\ mu' = NoThread
    /\ thr' = [thr EXCEPT ![t].pc = "idle"]
    /\ UNCHANGED <<sockVars, v2Vars, inFlight, nOps, txCalls, outstanding>>

\* The steps a caller already inside Send or Ack takes by itself.
ATCStep(t) ==
    \/ SendLock(t)
    \/ SendRegister(t)
    \/ \E ok \in BOOLEAN : SendFw(t, ok)
    \/ SendReturn(t)
    \/ AckLock(t)
    \/ AckDelete(t)
    \/ AckReturn(t)

(***************************************************************************)
(* Socket with an inbound queue, a shutdown channel and a Run loop:        *)
(* service/ports/socket/socket.go, lines 1-214                             *)
(***************************************************************************)
\* Program constants: the capacities of the socket's channels.
InboundCap  == 100
ShutdownCap == 1
DoneCap     == 1
SigsCap     == 1

Closers  == 1..MaxCloses
Flags    == [SYN : BOOLEAN, ACK : BOOLEAN, FIN : BOOLEAN, ERR : BOOLEAN]
Payloads == {<<>>, <<"a">>, <<"b">>}
Packets  == [SYN : BOOLEAN, ACK : BOOLEAN, FIN : BOOLEAN, ERR : BOOLEAN,
             Payload : Payloads]

Pkt(syn, ack, fin, err, payload) ==
    [SYN |-> syn, ACK |-> ack, FIN |-> fin, ERR |-> err, Payload |-> payload]
NoPacket == [SYN |-> FALSE, ACK |-> FALSE, FIN |-> FALSE, ERR |-> FALSE,
             Payload |-> <<"none">>]
NoFlags  == [SYN |-> FALSE, ACK |-> FALSE, FIN |-> FALSE, ERR |-> FALSE]

\* The packets the network layer delivers during the handshake, and those it
\* delivers to a running socket.
CtlPackets == {p \in Packets : p.Payload = <<>>}
RunPackets == {Pkt(FALSE, FALSE, FALSE, FALSE, <<"a">>),
               Pkt(FALSE, FALSE, TRUE, FALSE, <<"b">>)}

\* A channel send appends to the channel's buffer; a receive takes its head.
EnqueueFront(q, p) == <<p>> \o q
Enqueue(q, p) == Append(q, p)

\* The payloads of a sequence of packets.
PayloadsOf(q) == [i \in 1..Len(q) |-> q[i].Payload]

\* New's argument.  An address is nil or has a host string; the application
\* and network connections are nil or not.
Hosts    == {"10.0.0.1", "not-an-ip", ""}
NilAddr  == [isNil |-> TRUE, Host |-> ""]
Addrs    == {NilAddr} \cup [isNil : {FALSE}, Host : Hosts]
Configs  == [LocalAddr : Addrs, RemoteAddr : Addrs,
             Application : {"nil", "conn"}, Network : {"nil", "conn"}]
GoodConfig == [LocalAddr   |-> [isNil |-> FALSE, Host |-> "10.0.0.1"],
               RemoteAddr  |-> [isNil |-> FALSE, Host |-> "10.0.0.1"],
               Application |-> "conn", Network |-> "conn"]

\* net.ParseIP: the parsed address, or nil when the string is not an IP
\* address.
ParseIP(h) == IF h = "10.0.0.1" THEN <<10, 0, 0, 1>> ELSE <<>>

\* New, lines 60-71: the checks in the order of the code.  The second check
\* parses c.LocalAddr.Host, as the first does.
NewResult(c) ==
    IF c.LocalAddr.isNil \/ ParseIP(c.LocalAddr.Host) = <<>>
        THEN "invalid local address"
    ELSE IF c.RemoteAddr.isNil \/ ParseIP(c.LocalAddr.Host) = <<>>
        THEN "remote address cannot be nil"
    ELSE IF c.Application = "nil"
        THEN "connection to application layer cannot be nil"
    ELSE IF c.Network = "nil"
        THEN "connection to network layer cannot be nil"
    ELSE "socket"

\* New: the socket as constructed (inbound of capacity 100, shutdown of
\* capacity 1, no pump running).
InitSock ==
    /\ inbound = <<>>
    /\ inboundClosed = FALSE
    /\ delivered = <<>>
    /\ shutdownBuf = 0
    /\ shutdownClosed = FALSE
    /\ appClosed = 0
    /\ appEOF = FALSE
    /\ appWritten = <<>>
    /\ rxBytes = 0
    /\ txBytes = 0
    /\ runPc = "none"
    /\ sigsBuf = 0
    /\ rxdoneBuf = 0
    /\ txdoneBuf = 0
    /\ rxPc = "none"
    /\ rxCur = NoPacket
    /\ txPc = "none"
    /\ txN = 0
    /\ nReads = 0
    /\ closePc = [c \in Closers |-> "idle"]
    /\ wcpPc = "idle"
    /\ wcpWant = NoFlags
    /\ wcpTimer = FALSE
    /\ wcpGot = NoPacket
    /\ wcpRet = "none"
    /\ nWaits = 0
    /\ panic = "none"

chanVars  == <<shutdownBuf, shutdownClosed>>
appVars   == <<appClosed, appEOF, appWritten>>
runVars   == <<runPc, sigsBuf, rxdoneBuf, txdoneBuf>>
rxVars    == <<rxPc, rxCur, rxBytes>>
txVars    == <<txPc, txN, nReads, txBytes>>
wcpVars   == <<wcpPc, wcpWant, wcpTimer, wcpGot, wcpRet, nWaits>>
queueVars == <<inbound, inboundClosed, delivered>>

\* The socket of the other specifications was returned by New for a good
\* Config.
InitBuilt ==
    /\ cfg = GoodConfig
    /\ newRet = NewResult(GoodConfig)

\* Before New is called: any Config.
InitConfig ==
    /\ cfg \in Configs
    /\ newRet = "none"

\* New(c)
New ==
    /\ newRet = "none"
    /\ newRet' = NewResult(cfg)
    /\ UNCHANGED <<atcVars, v2Vars, cfg, queueVars, chanVars, appVars, runVars,
                   rxVars, txVars, closePc, wcpVars, panic>>

\* Deliver: s.inbound <- p.  A send on a closed channel panics; a send on a
\* full channel blocks.
Deliver(p) ==
    /\ panic = "none"
    /\ Len(delivered) < MaxDeliver
    /\ IF inboundClosed
          THEN /\ panic' = "send on closed channel"
               /\ UNCHANGED <<inbound, delivered>>
          ELSE /\ Len(inbound) < InboundCap
               /\ inbound' = Enqueue(inbound, p)
               /\ delivered' = Append(delivered, p)
               /\ UNCHANGED panic
    /\ UNCHANGED <<atcVars, v2Vars, cfg, newRet, inboundClosed, chanVars, appVars, runVars, rxVars, txVars,
                   closePc, wcpVars>>

\* WaitForControlPacket, lines 123-135: the flags are compared in the order
\* SYN, ACK, FIN, ERR and the first that differs is named in the error.
FlagCheckAckLast(want, p) ==
    IF want.SYN # p.SYN THEN "SYN"
    ELSE IF want.FIN # p.FIN THEN "FIN"
    ELSE IF want.ERR # p.ERR THEN "ERR"
    ELSE IF want.ACK # p.ACK THEN "ACK"
    ELSE "nil"
FlagCheck(want, p) ==
    IF want.SYN # p.SYN THEN "SYN"
    ELSE IF want.ACK # p.ACK THEN "ACK"
    ELSE IF want.FIN # p.FIN THEN "FIN"
    ELSE IF want.ERR # p.ERR THEN "ERR"
    ELSE "nil"

\* A caller enters WaitForControlPacket(syn, ack, fin, err, timeout) and
\* blocks in the select.
WaitCall(want) ==
    /\ panic = "none"
    /\ wcpPc \in {"idle", "done"}
    /\ nWaits < MaxWaits
    /\ nWaits' = nWaits + 1
    /\ wcpPc' = "waiting"
    /\ wcpWant' = want
    /\ wcpTimer' = FALSE
    /\ wcpGot' = NoPacket
    /\ wcpRet' = "none"
    /\ UNCHANGED <<atcVars, v2Vars, cfg, newRet, queueVars, chanVars, appVars, runVars, rxVars, txVars,
                   closePc, panic>>

\* The timeout elapses: the channel of time.After(timeout) becomes ready.
WaitTimerFire ==
    /\ panic = "none"
    /\ wcpPc = "waiting"
    /\ ~wcpTimer
    /\ wcpTimer' = TRUE
    /\ UNCHANGED <<atcVars, v2Vars, cfg, newRet, queueVars, chanVars, appVars, runVars, rxVars, txVars,
                   closePc, wcpPc, wcpWant, wcpGot, wcpRet, nWaits, panic>>

\* case p := <-s.inbound: the packet is taken and its flags are compared.
WaitTake ==
    /\ panic = "none"
    /\ wcpPc = "waiting"
    /\ inbound # <<>>
    /\ inbound' = Tail(inbound)
    /\ wcpGot' = Head(inbound)
    /\ wcpRet' = FlagCheck(wcpWant, Head(inbound))
    /\ wcpPc' = "done"
    /\ UNCHANGED <<atcVars, v2Vars, cfg, newRet, inboundClosed, delivered, chanVars, appVars, runVars,
                   rxVars, txVars, closePc, wcpWant, wcpTimer, nWaits, panic>>

\* case <-time.After(timeout): return "operation timed out".
WaitTimeout ==
    /\ panic = "none"
    /\ wcpPc = "waiting"
    /\ wcpTimer
    /\ wcpRet' = "operation timed out"
    /\ wcpPc' = "done"
    /\ UNCHANGED <<atcVars, v2Vars, cfg, newRet, queueVars, chanVars, appVars, runVars, rxVars, txVars,
                   closePc, wcpWant, wcpTimer, wcpGot, nWaits, panic>>

\* case p := <-s.inbound on the closed, drained channel: p is nil and
\* p.IsSYN() dereferences it.
WaitRecvClosed ==
    /\ panic = "none"
    /\ wcpPc = "waiting"
    /\ inbound = <<>>
    /\ inboundClosed
    /\ panic' = "nil pointer dereference"
    /\ UNCHANGED <<atcVars, v2Vars, cfg, newRet, queueVars, chanVars, appVars, runVars, rxVars, txVars,
                   closePc, wcpVars>>

\* Run, lines 154-161: the done channels are made, the pumps are started and
\* Run enters its select loop.
RunStart ==
    /\ panic = "none"
    /\ runPc = "none"
    /\ runPc' = "loop"
    /\ rxPc' = "select"
    /\ txPc' = "select"
    /\ UNCHANGED <<atcVars, v2Vars, cfg, newRet, queueVars, chanVars, appVars, sigsBuf, rxdoneBuf,
                   txdoneBuf, rxCur, rxBytes, txN, nReads, txBytes, closePc,
                   wcpVars, panic>>

\* The process receives SIGINT or SIGTERM while Run is in its loop:
\* signal.Notify relays it to sigs without blocking (a signal that finds the
\* buffer full is dropped, and changes nothing).
Signal ==
    /\ panic = "none"
    /\ runPc = "loop"
    /\ sigsBuf < SigsCap
    /\ sigsBuf' = sigsBuf + 1
    /\ UNCHANGED <<atcVars, v2Vars, cfg, newRet, queueVars, chanVars, appVars, runPc, rxdoneBuf,
                   txdoneBuf, rxVars, txVars, closePc, wcpVars, panic>>

\* case <-sigs: the case is empty, the loop goes on.
RunSignal ==
    /\ panic = "none"
    /\ runPc = "loop"
    /\ sigsBuf > 0
    /\ sigsBuf' = sigsBuf - 1
    /\ UNCHANGED <<atcVars, v2Vars, cfg, newRet, queueVars, chanVars, appVars, runPc, rxdoneBuf,
                   txdoneBuf, rxVars, txVars, closePc, wcpVars, panic>>

\* case <-s.shutdown: a buffered value is taken, or the channel is closed and
\* the receive yields at once.
RunShutdown ==
    /\ panic = "none"
    /\ runPc = "loop"
    /\ shutdownBuf > 0 \/ shutdownClosed
    /\ shutdownBuf' = IF shutdownBuf > 0 THEN shutdownBuf - 1 ELSE shutdownBuf
    /\ runPc' = "txdone"
    /\ UNCHANGED <<atcVars, v2Vars, cfg, newRet, queueVars, shutdownClosed, appVars, sigsBuf, 
                   rxdoneBuf, txdoneBuf, rxVars, txVars, closePc, wcpVars,
                   panic>>

\* txdone <- true
RunTxDone ==
    /\ panic = "none"
    /\ runPc = "txdone"
    /\ txdoneBuf < DoneCap
    /\ txdoneBuf' = txdoneBuf + 1
    /\ runPc' = "rxdone"
    /\ UNCHANGED <<atcVars, v2Vars, cfg, newRet, queueVars, chanVars, appVars, sigsBuf, rxdoneBuf,
                   rxVars, txVars, closePc, wcpVars, panic>>

\* rxdone <- true; close(txdone); close(rxdone); return nil
RunRxDone ==
    /\ panic = "none"
    /\ runPc = "rxdone"
    /\ rxdoneBuf < DoneCap
    /\ rxdoneBuf' = rxdoneBuf + 1
    /\ runPc' = "returned"
    /\ UNCHANGED <<atcVars, v2Vars, cfg, newRet, queueVars, chanVars, appVars, sigsBuf, txdoneBuf,
                   rxVars, txVars, closePc, wcpVars, panic>>

\* receive, case <-done: close(s.inbound); return
RxDone ==
    /\ panic = "none"
    /\ rxPc = "select"
    /\ rxdoneBuf > 0
    /\ rxdoneBuf' = rxdoneBuf - 1
    /\ IF inboundClosed
          THEN panic' = "close of closed channel" /\ UNCHANGED inboundClosed
          ELSE inboundClosed' = TRUE /\ UNCHANGED panic
    /\ rxPc' = "exited"
    /\ UNCHANGED <<atcVars, v2Vars, cfg, newRet, inbound, delivered, chanVars, appVars, runPc, sigsBuf,
                   txdoneBuf, rxCur, rxBytes, txVars, closePc,
                   wcpVars>>

\* receive, case p := <-s.inbound
RxTake ==
    /\ panic = "none"
    /\ rxPc = "select"
    /\ inbound # <<>>
    /\ rxCur' = Head(inbound)
    /\ inbound' = Tail(inbound)
    /\ rxPc' = "process"
    /\ UNCHANGED <<atcVars, v2Vars, cfg, newRet, inboundClosed, delivered, chanVars, appVars, runVars,
                   rxBytes, txVars, closePc, wcpVars, panic>>

\* s.rxBytes += uint32(p.Length); s.application.Write(p.Payload): the result
\* of Write is dropped, and a Write on the closed stream writes nothing.
RxProcess ==
    /\ panic = "none"
    /\ rxPc = "process"
    /\ rxBytes' = rxBytes + Len(rxCur.Payload)
    /\ appWritten' = IF appClosed = 0 THEN Append(appWritten, rxCur.Payload)
                                      ELSE appWritten
    /\ rxCur' = NoPacket
    /\ rxPc' = "select"
    /\ UNCHANGED <<atcVars, v2Vars, cfg, newRet, queueVars, chanVars, appClosed, appEOF, runVars, txVars,
                   closePc, wcpVars, panic>>

\* transmit, case <-done: return
TxDone ==
    /\ panic = "none"
    /\ txPc = "select"
    /\ txdoneBuf > 0
    /\ txdoneBuf' = txdoneBuf - 1
    /\ txPc' = "exited on done"
    /\ UNCHANGED <<atcVars, v2Vars, cfg, newRet, queueVars, chanVars, appVars, runPc, sigsBuf, 
                   rxdoneBuf, rxVars, txN, nReads, txBytes, closePc, wcpVars,
                   panic>>

\* transmit, default: taken only when done is not ready; the pump calls
\* s.application.Read(buf).
TxDefault ==
    /\ panic = "none"
    /\ txPc = "select"
    /\ txdoneBuf = 0
    /\ txPc' = "read"
    /\ UNCHANGED <<atcVars, v2Vars, cfg, newRet, queueVars, chanVars, appVars, runVars, rxVars, txN, nReads,
                   txBytes, closePc, wcpVars, panic>>

\* Read returns n bytes the application wrote.
TxReadData(n) ==
    /\ panic = "none"
    /\ txPc = "read"
    /\ appClosed = 0
    /\ ~appEOF
    /\ nReads < MaxReads
    /\ nReads' = nReads + 1
    /\ txN' = n
    /\ txPc' = "pack"
    /\ UNCHANGED <<atcVars, v2Vars, cfg, newRet, queueVars, chanVars, appVars, runVars, rxVars, txBytes,
                   closePc, wcpVars, panic>>

\* Read returns io.EOF: the pump goes on to s.shutdown <- true.
TxReadEOF ==
    /\ panic = "none"
    /\ txPc = "read"
    /\ appClosed = 0
    /\ appEOF
    /\ txPc' = "eof"
    /\ UNCHANGED <<atcVars, v2Vars, cfg, newRet, queueVars, chanVars, appVars, runVars, rxVars, txN, nReads,
                   txBytes, closePc, wcpVars, panic>>

\* Read fails because the socket has closed the stream: continue.
TxReadClosed ==
    /\ panic = "none"
    /\ txPc = "read"
    /\ appClosed > 0
    /\ txPc' = "select"
    /\ UNCHANGED <<atcVars, v2Vars, cfg, newRet, queueVars, chanVars, appVars, runVars, rxVars, txN, nReads,
                   txBytes, closePc, wcpVars, panic>>

\* Read fails with any other error than io.EOF (at end-of-input it returns
\* io.EOF): continue.
TxReadError ==
    /\ panic = "none"
    /\ txPc = "read"
    /\ appClosed = 0
    /\ ~appEOF
    /\ txPc' = "select"
    /\ UNCHANGED <<atcVars, v2Vars, cfg, newRet, queueVars, chanVars, appVars, runVars, rxVars, txN, nReads,
                   txBytes, closePc, wcpVars, panic>>

\* s.shutdown <- true; return.  The send panics on the closed channel and
\* blocks while the buffer is full.
TxEOFShutdown ==
    /\ panic = "none"
    /\ txPc = "eof"
    /\ IF shutdownClosed
          THEN /\ panic' = "send on closed channel"
               /\ UNCHANGED <<shutdownBuf, txPc>>
          ELSE /\ shutdownBuf < ShutdownCap
               /\ shutdownBuf' = shutdownBuf + 1
               /\ txPc' = "exited on EOF"
               /\ UNCHANGED panic
    /\ UNCHANGED <<atcVars, v2Vars, cfg, newRet, queueVars, shutdownClosed, appVars, runVars, rxVars, txN,
                   nReads, txBytes, closePc, wcpVars>>

\* PackAndForwardMessage(buf[:n]) succeeds: s.txBytes += uint32(n)
TxPackOk ==
    /\ panic = "none"
    /\ txPc = "pack"
    /\ txBytes' = txBytes + txN
    /\ txN' = 0
    /\ txPc' = "select"
    /\ UNCHANGED <<atcVars, v2Vars, cfg, newRet, queueVars, chanVars, appVars, runVars, rxVars, nReads,
                   closePc, wcpVars, panic>>

\* PackAndForwardMessage(buf[:n]) fails: the error is logged and the pump
\* returns.
TxPackError ==
    /\ panic = "none"
    /\ txPc = "pack"
    /\ txN' = 0
    /\ txPc' = "exited on error"
    /\ UNCHANGED <<atcVars, v2Vars, cfg, newRet, queueVars, chanVars, appVars, runVars, rxVars, nReads,
                   txBytes, closePc, wcpVars, panic>>

\* The application closes its end of the stream: Reads return io.EOF from
\* now on.
AppEOF ==
    /\ panic = "none"
    /\ ~appEOF
    /\ appEOF' = TRUE
    /\ UNCHANGED <<atcVars, v2Vars, cfg, newRet, queueVars, chanVars, appClosed, appWritten, runVars, rxVars,
                   txVars, closePc, wcpVars, panic>>

\* A caller enters Close.
CloseCall(c) ==
    /\ panic = "none"
    /\ closePc[c] = "idle"
    /\ \A d \in Closers : d < c => closePc[d] # "idle"
    /\ closePc' = [closePc EXCEPT ![c] = "send"]
    /\ UNCHANGED <<atcVars, v2Vars, cfg, newRet, queueVars, chanVars, appVars, runVars, rxVars, txVars,
                   wcpVars, panic>>

\* s.shutdown <- true
CloseSend(c) ==
    /\ panic = "none"
    /\ closePc[c] = "send"
    /\ IF shutdownClosed
          THEN /\ panic' = "send on closed channel"
               /\ UNCHANGED <<shutdownBuf, closePc>>
          ELSE /\ shutdownBuf < ShutdownCap
               /\ shutdownBuf' = shutdownBuf + 1
               /\ closePc' = [closePc EXCEPT ![c] = "close"]
               /\ UNCHANGED panic
    /\ UNCHANGED <<atcVars, v2Vars, cfg, newRet, queueVars, shutdownClosed, appVars, runVars, rxVars, txVars,
                   wcpVars>>

\* close(s.shutdown)
CloseChan(c) ==
    /\ panic = "none"
    /\ closePc[c] = "close"
    /\ IF shutdownClosed
          THEN /\ panic' = "close of closed channel"
               /\ UNCHANGED <<shutdownClosed, closePc>>
          ELSE /\ shutdownClosed' = TRUE
               /\ closePc' = [closePc EXCEPT ![c] = "app"]
               /\ UNCHANGED panic
    /\ UNCHANGED <<atcVars, v2Vars, cfg, newRet, queueVars, shutdownBuf, appVars, runVars, rxVars, txVars,
                   wcpVars>>

\* s.application.Close(); return
CloseApp(c) ==
    /\ panic = "none"
    /\ closePc[c] = "app"
    /\ appClosed' = appClosed + 1
    /\ closePc' = [closePc EXCEPT ![c] = "returned"]
    /\ UNCHANGED <<atcVars, v2Vars, cfg, newRet, queueVars, chanVars, appEOF, appWritten, runVars, rxVars,
                   txVars, wcpVars, panic>>

(***************************************************************************)
(* Socket that owns a controller and starts its pumps in NewSocket:        *)
(* service/ports/socket/socket.go, lines 216-323                           *)
(***************************************************************************)
\* The goroutines that call the controller.
Receiver == "t1"
Sender   == "t2"

\* An inbound packet carries flags, an acknowledgement number (0 unless the
\* peer set it) and a payload.
InPackets == [SYN : BOOLEAN, ACK : BOOLEAN, FIN : BOOLEAN, ERR : BOOLEAN,
              AckNo : SeqNos, Payload : {<<>>, <<"a">>}]
NoInPacket == [SYN |-> FALSE, ACK |-> FALSE, FIN |-> FALSE, ERR |-> FALSE,
               AckNo |-> 0, Payload |-> <<"none">>]

\* The packets a peer sends: a SYN+ACK, a packet that acknowledges a
\* sequence number, and a data packet that acknowledges nothing.
PeerPackets ==
    {p \in InPackets :
        /\ ~p.FIN /\ ~p.ERR
        /\ \/ p.SYN /\ p.ACK /\ p.AckNo = 0 /\ p.Payload = <<>>
           \/ ~p.SYN /\ p.ACK /\ p.Payload = <<>>
           \/ ~p.SYN /\ ~p.ACK /\ p.AckNo = 0 /\ p.Payload = <<"a">>}

InitV2 ==
    /\ sockUp = FALSE
    /\ netIn = 0
    /\ received = <<>>
    /\ rcvPc = "none"
    /\ rcvCur = NoInPacket
    /\ sndPc = "none"
    /\ sndN = 0
    /\ pfSeq = 0
    /\ wire = <<>>
    /\ v2App = <<>>
    /\ v2AppClosed = FALSE
    /\ v2Rx = 0
    /\ v2Tx = 0

\* NewSocket: the controller and the factory are made, then
\* go s.receiver(); go s.sender(); return s, nil
NewSocket ==
    /\ ~sockUp
    /\ sockUp' = TRUE
    /\ rcvPc' = "recv"
    /\ sndPc' = "read"
    /\ UNCHANGED <<atcVars, sockVars, netIn, received, rcvCur, sndN, pfSeq,
                   wire, v2App, v2AppClosed, v2Rx, v2Tx>>

\* receiver: p := <-s.In.  The channel is unbuffered: the network layer's
\* send and the receiver's receive happen together.
RcvTake(p) ==
    /\ rcvPc = "recv"
    /\ netIn < MaxDeliver
    /\ netIn' = netIn + 1
    /\ received' = Append(received, p)
    /\ rcvCur' = p
    /\ rcvPc' = "ack"
    /\ UNCHANGED <<atcVars, sockVars, sockUp, sndPc, sndN, pfSeq, wire, v2App,
                   v2AppClosed, v2Rx, v2Tx>>

\* receiver: s.atc.Ack(p.AckNo), the call
RcvAck ==
    /\ rcvPc = "ack"
    /\ thr[Receiver].pc = "idle"
    /\ thr' = [thr EXCEPT ![Receiver] =
                  [IdleThread EXCEPT !.pc = "ack_lock", !.num = rcvCur.AckNo]]
    /\ rcvPc' = "acking"
    /\ UNCHANGED <<inFlight, mu, nOps, txCalls, outstanding, sockVars, sockUp,
                   netIn, received, rcvCur, sndPc, sndN, pfSeq, wire, v2App,
                   v2AppClosed, v2Rx, v2Tx>>

\* receiver, after Ack has returned: s.rxBytes += uint32(p.Length);
\* s.application.Write(p.Payload)
RcvWrite ==
    /\ rcvPc = "acking"
    /\ thr[Receiver].pc = "idle"
    /\ v2Rx' = v2Rx + Len(rcvCur.Payload)
    /\ v2App' = IF v2AppClosed THEN v2App ELSE Append(v2App, rcvCur.Payload)
    /\ rcvCur' = NoInPacket
    /\ rcvPc' = "recv"
    /\ UNCHANGED <<atcVars, sockVars, sockUp, netIn, received, sndPc, sndN,
                   pfSeq, wire, v2AppClosed, v2Tx>>

\* sender: n, err := s.application.Read(buf) returns n bytes
SndRead(n) ==
    /\ sndPc = "read"
    /\ ~v2AppClosed
    /\ pfSeq + n <= MaxSeq + 1
    /\ sndN' = n
    /\ sndPc' = "send"
    /\ UNCHANGED <<atcVars, sockVars, sockUp, netIn, received, rcvPc, rcvCur,
                   pfSeq, wire, v2App, v2AppClosed, v2Rx, v2Tx>>

\* sender: Read fails (the stream is closed, or at end-of-input): return
SndReadError ==
    /\ sndPc = "read"
    /\ sndPc' = "exited"
    /\ UNCHANGED <<atcVars, sockVars, sockUp, netIn, received, rcvPc, rcvCur,
                   sndN, pfSeq, wire, v2App, v2AppClosed, v2Rx, v2Tx>>

\* The packet factory's Send: the chunk becomes a packet that carries the
\* byte offset of its first byte as its sequence number.
PfPacket(seq, n) == [SeqNo |-> seq, Payload |-> [i \in 1..n |-> "a"]]

\* sender: s.pf.Send(buf[:n]); the factory hands the packet to its sink,
\* which calls atctrl.Send(p)
SndSend ==
    /\ sndPc = "send"
    /\ thr[Sender].pc = "idle"
    /\ thr' = [thr EXCEPT ![Sender] =
                  [IdleThread EXCEPT !.pc = "send_lock",
                                     !.pkt = PfPacket(pfSeq, sndN)]]
    /\ pfSeq' = pfSeq + sndN
    /\ sndPc' = "sending"
    /\ UNCHANGED <<inFlight, mu, nOps, txCalls, outstanding, sockVars, sockUp,
                   netIn, received, rcvPc, rcvCur, sndN, wire, v2App,
                   v2AppClosed, v2Rx, v2Tx>>

\* The controller's transmit callback as NewSocket sets it:
\* func(p) { nw.Send(rAddr.Host, p) }.  What nw.Send returns is dropped.
SendFwNet(t, netOk) ==
    /\ thr[t].pc = "send_fw"
    /\ txCalls' = [txCalls EXCEPT ![thr[t].pkt.SeqNo] = @ + 1]
    /\ outstanding' = IF netOk THEN outstanding \cup {thr[t].pkt}
                               ELSE outstanding
    /\ wire' = Append(wire, [pkt |-> thr[t].pkt, sent |-> netOk])
    /\ thr' = [thr EXCEPT ![t].pc = "send_ret", ![t].ret = "nil"]
    /\ UNCHANGED <<inFlight, mu, nOps, sockVars, sockUp, netIn, received,
                   rcvPc, rcvCur, sndPc, sndN, pfSeq, v2App, v2AppClosed,
                   v2Rx, v2Tx>>

\* sender, after the sink has returned nil: s.txBytes += uint32(n)
SndCount ==
    /\ sndPc = "sending"
    /\ thr[Sender].pc = "idle"
    /\ v2Tx' = v2Tx + sndN
    /\ sndN' = 0
    /\ sndPc' = "read"
    /\ UNCHANGED <<atcVars, sockVars, sockUp, netIn, received, rcvPc, rcvCur,
                   pfSeq, wire, v2App, v2AppClosed, v2Rx>>

\* Close: return s.application.Close()
CloseV2 ==
    /\ sockUp
    /\ ~v2AppClosed
    /\ v2AppClosed' = TRUE
    /\ UNCHANGED <<atcVars, sockVars, sockUp, netIn, received, rcvPc, rcvCur,
                   sndPc, sndN, pfSeq, wire, v2App, v2Rx, v2Tx>>

(***************************************************************************)
(* Specifications                                                          *)
(***************************************************************************)
vars == <<atcVars, sockVars, v2Vars>>

TxExited == txPc \in {"exited on done", "exited on EOF", "exited on error"}

\* The controller alone, called by concurrent callers.
NextATC ==
    \/ \E t \in Threads, p \in OutPackets : SendCall(t, p)
    \/ \E t \in Threads : SendLock(t)
    \/ \E t \in Threads : SendRegister(t)
    \/ \E t \in Threads, ok \in BOOLEAN : SendFw(t, ok)
    \/ \E t \in Threads : SendReturn(t)
    \/ \E t \in Threads, n \in SeqNos : AckCall(t, n)
    \/ \E t \in Threads : AckLock(t)
    \/ \E t \in Threads : AckDelete(t)
    \/ \E t \in Threads : AckReturn(t)

Init == InitATC /\ InitSock /\ InitBuilt /\ InitV2

SpecATC == Init /\ [][NextATC]_vars

\* The scheduler runs every goroutine that can take a step; nothing obliges a
\* caller to start a new Send or Ack.
FairATC == SpecATC /\ \A t \in Threads : WF_vars(ATCStep(t))

\* The handshake phase: the socket is constructed and Run has not started.
NextOpen ==
    \/ \E p \in CtlPackets : Deliver(p)
    \/ \E want \in Flags : WaitCall(want)
    \/ WaitTimerFire
    \/ WaitTake
    \/ WaitTimeout

SpecOpen == Init /\ [][NextOpen]_vars

\* Construction: New applied to any Config.
InitNew == InitATC /\ InitSock /\ InitConfig /\ InitV2

NextNew == New

SpecNew == InitNew /\ [][NextNew]_vars

\* The running socket: Run, its two pumps, Close, and the socket's
\* environment (the network layer, the application, the operating system).
NextRun ==
    \/ \E p \in RunPackets : Deliver(p)
    \/ RunStart
    \/ Signal
    \/ RunSignal
    \/ RunShutdown
    \/ RunTxDone
    \/ RunRxDone
    \/ RxDone
    \/ RxTake
    \/ RxProcess
    \/ TxDone
    \/ TxDefault
    \/ \E n \in 1..2 : TxReadData(n)
    \/ TxReadEOF
    \/ TxReadClosed
    \/ TxReadError
    \/ TxEOFShutdown
    \/ TxPackOk
    \/ TxPackError
    \/ AppEOF
    \/ \E c \in Closers : CloseCall(c)
    \/ \E c \in Closers : CloseSend(c)
    \/ \E c \in Closers : CloseChan(c)
    \/ \E c \in Closers : CloseApp(c)

SpecRun == Init /\ [][NextRun]_vars

\* Every started goroutine that can take a step is scheduled, and a select
\* picks at random among its ready cases, so a case that is ready again and
\* again is taken.  A Read that has nothing to return may block for ever,
\* and nothing obliges the environment to deliver, to signal, to close or
\* to call.
FairRun ==
    /\ SpecRun
    /\ SF_vars(RunShutdown) /\ WF_vars(RunSignal)
    /\ WF_vars(RunTxDone) /\ WF_vars(RunRxDone)
    /\ SF_vars(RxDone) /\ SF_vars(RxTake) /\ WF_vars(RxProcess)
    /\ WF_vars(TxDone) /\ WF_vars(TxDefault)
    /\ WF_vars(TxReadEOF) /\ WF_vars(TxReadClosed) /\ WF_vars(TxEOFShutdown)
    /\ WF_vars(TxPackOk \/ TxPackError)
    /\ \A c \in Closers :
          WF_vars(CloseSend(c)) /\ WF_vars(CloseChan(c)) /\ WF_vars(CloseApp(c))

\* The running socket while a caller also uses WaitForControlPacket (for the
\* teardown exchange, or a handshake that overlaps Run): the network layer
\* delivers data packets and FIN control packets, and the caller awaits
\* SYN+ACK or FIN.
BothPackets == {Pkt(FALSE, FALSE, FALSE, FALSE, <<"a">>),
                Pkt(FALSE, FALSE, TRUE, FALSE, <<>>)}
BothWants   == {[SYN |-> TRUE, ACK |-> TRUE, FIN |-> FALSE, ERR |-> FALSE],
                [SYN |-> FALSE, ACK |-> FALSE, FIN |-> TRUE, ERR |-> FALSE]}

NextBoth ==
    \/ \E p \in BothPackets : Deliver(p)
    \/ \E want \in BothWants : WaitCall(want)
    \/ WaitTimerFire
    \/ WaitTake
    \/ WaitTimeout
    \/ WaitRecvClosed
    \/ RunStart
    \/ Signal
    \/ RunSignal
    \/ RunShutdown
    \/ RunTxDone
    \/ RunRxDone
    \/ RxDone
    \/ RxTake
    \/ RxProcess
    \/ TxDone
    \/ TxDefault
    \/ \E n \in 1..2 : TxReadData(n)
    \/ TxReadEOF
    \/ TxReadClosed
    \/ TxReadError
    \/ TxEOFShutdown
    \/ TxPackOk
    \/ TxPackError
    \/ AppEOF
    \/ \E c \in Closers : CloseCall(c)
    \/ \E c \in Closers : CloseSend(c)
    \/ \E c \in Closers : CloseChan(c)
    \/ \E c \in Closers : CloseApp(c)

SpecBoth == Init /\ [][NextBoth]_vars

\* The socket that owns a controller: NewSocket, its receiver and sender,
\* the controller they call, Close, and the network layer's deliveries.
NextV2 ==
    \/ NewSocket
    \/ \E p \in PeerPackets : RcvTake(p)
    \/ RcvAck
    \/ RcvWrite
    \/ \E n \in 1..1 : SndRead(n)
    \/ SndReadError
    \/ SndSend
    \/ SndCount
    \/ CloseV2
    \/ \E t \in Threads : SendLock(t)
    \/ \E t \in Threads : SendRegister(t)
    \/ \E t \in Threads, netOk \in BOOLEAN : SendFwNet(t, netOk)
    \/ \E t \in Threads : SendReturn(t)
    \/ \E t \in Threads : AckLock(t)
    \/ \E t \in Threads : AckDelete(t)
    \/ \E t \in Threads : AckReturn(t)

SpecV2 == Init /\ [][NextV2]_vars

(***************************************************************************)
(* Claims about the retransmission controller.                             *)
(***************************************************************************)

\* C1: the step of Ack(n) that deletes leaves no entry for n, leaves every
\* other entry as it was (so an Ack of a number that has no entry changes
\* nothing), and Ack reports no error.
C1_AckRemovesOnlyItsEntry ==
    [][\A t \in Threads :
          (thr[t].pc = "ack_del" /\ thr'[t].pc = "ack_ret") =>
              /\ thr[t].num \notin DOMAIN inFlight'
              /\ DOMAIN inFlight' = DOMAIN inFlight \ {thr[t].num}
              /\ \A s \in DOMAIN inFlight' : inFlight'[s] = inFlight[s]
              /\ thr'[t].ret = "none"]_vars

\* C1 witness: an Ack has just removed the entry of a packet that a Send
\* transmitted successfully.
C1_Witness ==
    \E t \in Threads :
        /\ thr[t].pc = "ack_ret"
        /\ thr[t].wasOut
        /\ thr[t].removed # NoPkt
        /\ thr[t].num \notin DOMAIN inFlight

\* C2: when Send is about to return a send error, the map holds no entry for
\* the packet's sequence number that this call added.
C2_FailedSendNotTracked ==
    \A t \in Threads :
        (thr[t].pc = "send_ret" /\ thr[t].ret = "send error" /\ thr[t].fresh)
            => thr[t].pkt.SeqNo \notin DOMAIN inFlight

\* C3: whenever no caller is inside the controller, a packet has an entry if
\* and only if it was transmitted and not acknowledged since.
C3_EntryIffSentUnacked ==
    mu = NoThread =>
        \A p \in OutPackets :
            (p.SeqNo \in DOMAIN inFlight /\ inFlight[p.SeqNo] = p)
                <=> p \in outstanding

\* C4: an entry of a transmitted packet that stays unacknowledged is handed
\* to the transmit callback again, every time.
C4_EventualRedelivery ==
    \A s \in SeqNos : \A k \in 0..MaxOps :
        [](( /\ mu = NoThread
             /\ s \in DOMAIN inFlight
             /\ inFlight[s] \in outstanding
             /\ txCalls[s] = k )
           => <>(s \notin DOMAIN inFlight \/ txCalls[s] > k))

\* C5: the transmit callback is invoked for a sequence number only while its
\* entry is present, by the Send that registered it and still holds the lock;
\* after Ack(n) removed the entry nothing transmits n until a new Send
\* registers it.
C5_TransmitOnlyRegistered ==
    [][\A s \in SeqNos :
          txCalls'[s] > txCalls[s] =>
              /\ s \in DOMAIN inFlight
              /\ \E t \in Threads :
                    /\ mu = t
                    /\ thr[t].pc = "send_fw"
                    /\ inFlight[s] = thr[t].pkt]_vars

\* C5 witness: a sequence number was transmitted once, then acknowledged; the
\* controller is idle and the number has no entry.
C5_Witness ==
    \E s \in SeqNos :
        /\ txCalls[s] = 1
        /\ s \notin DOMAIN inFlight
        /\ \A t \in Threads : thr[t].pc = "idle"

(***************************************************************************)
(* Claims about the socket that owns a controller.                         *)
(***************************************************************************)

\* C7: a socket whose pumps run (the established socket) has received a
\* packet that is exactly SYN+ACK.
C7_EstablishedAfterSynAck ==
    sockUp =>
        \E i \in DOMAIN received :
            /\ received[i].SYN /\ received[i].ACK
            /\ ~received[i].FIN /\ ~received[i].ERR

(***************************************************************************)
(* Claims about the socket with a Run loop.                                *)
(***************************************************************************)

FlagNames == <<"SYN", "ACK", "FIN", "ERR">>

C8_EOFClosesStreamOnce ==
    ( /\ txPc = "exited on EOF"
      /\ rxPc = "exited"
      /\ runPc = "returned"
      /\ \A c \in Closers : closePc[c] \in {"idle", "returned"} )
        => appClosed = 1

\* C9: a Close called while Run and both pumps are active leads to both
\* pumps exited, Run returned, the stream closed and that Close returned.
C9_CloseShutsDown ==
    \A c \in Closers :
        ( /\ closePc[c] = "send"
          /\ runPc = "loop"
          /\ rxPc \in {"select", "process"}
          /\ txPc \in {"select", "read", "pack", "eof"} )
        ~> ( /\ rxPc = "exited"
             /\ TxExited
             /\ runPc = "returned"
             /\ appClosed >= 1
             /\ closePc[c] = "returned" )

C11_ReceivePumpAcks ==
    LET taken     == Len(delivered) - Len(inbound)
        processed == IF rxPc = "process" THEN taken - 1 ELSE taken
    IN  processed <= nOps

\* C12: the sender counts a chunk as transmitted only if the network layer
\* accepted the packet that carried it; a failed network send is never
\* followed by the count.
C12_FailureNotCounted ==
    [][v2Tx' > v2Tx => (wire # <<>> /\ wire[Len(wire)].sent)]_vars

\* C13: once the transmit pump has ended on a packetization or transmit
\* failure, the socket shuts down: eventually the receive pump has exited
\* and Run has returned (or the process has ended in a panic).
C13_PumpErrorShutsDown ==
    (txPc = "exited on error")
        ~> ( \/ rxPc = "exited" /\ runPc = "returned"
             \/ panic # "none" )

\* C14: once the receive pump has taken a packet with the FIN flag set, the
\* socket is torn down: eventually both pumps have exited (or the process
\* has ended in a panic).
C14_FinTearsDown ==
    (rxPc = "process" /\ rxCur.FIN)
        ~> ( \/ rxPc = "exited" /\ TxExited
             \/ panic # "none" )

(***************************************************************************)
(* Claims about construction.                                              *)
(***************************************************************************)

\* C15: New returns a socket only for a Config whose local and remote
\* addresses are both present with a host that parses as an IP address, and
\* whose application and network connections are not nil.
C15_NewValidates ==
    newRet = "socket" =>
        /\ ~cfg.LocalAddr.isNil /\ ParseIP(cfg.LocalAddr.Host) # <<>>
        /\ ~cfg.RemoteAddr.isNil /\ ParseIP(cfg.RemoteAddr.Host) # <<>>
        /\ cfg.Application # "nil" /\ cfg.Network # "nil"

(***************************************************************************)
(* Claims about the controller's locking.                                  *)
(***************************************************************************)

\* C16: a caller that is between its Lock and its Unlock, where Send and Ack
\* read and write the in-flight map, holds the mutex, and no two callers are
\* there at the same time.
C16_MapAccessExclusive ==
    LET InSection(t) ==
            thr[t].pc \in {"send_reg", "send_fw", "send_ret", "ack_del", "ack_ret"}
    IN  /\ \A t \in Threads : InSection(t) => mu = t
        /\ \A t, u \in Threads : (InSection(t) /\ InSection(u)) => t = u

\* C16 witness: one caller is inside Send with the map written, while
\* another has called Ack and waits for the lock.
C16_Witness ==
    \E t, u \in Threads :
        /\ thr[t].pc = "send_fw"
        /\ thr[u].pc = "ack_lock"
        /\ thr[t].pkt.SeqNo \in DOMAIN inFlight

\* C17: while the transmit callback of Send(p) is executing, an Ack of
\* p.SeqNo that has been called can take the lock and reach the entry: the
\* Send does not hold the mutex during the callback.
C17_AckNotBlockedByCallback ==
    \A t, u \in Threads :
        ( /\ thr[t].pc = "send_fw"
          /\ thr[u].pc = "ack_lock"
          /\ thr[u].num = thr[t].pkt.SeqNo )
            => mu # t

(***************************************************************************)
(* Claims about the socket's channels.                                     *)
(***************************************************************************)

\* C18: no send is performed on a closed channel and no channel is closed
\* twice: the process never ends in one of the two run-time panics.
C18_NoChannelMisuse ==
    panic \notin {"send on closed channel", "close of closed channel"}

\* C19: while a caller waits in WaitForControlPacket, the receive pump never
\* takes a packet whose four flags are the awaited ones.
C19_PumpLeavesAwaitedPacket ==
    [][(wcpPc = "waiting" /\ rxPc = "select" /\ rxPc' = "process")
          => FlagCheck(wcpWant, rxCur') # "nil"]_vars

(***************************************************************************)
(* Claims about cumulative acknowledgement.                                *)
(***************************************************************************)

\* C20: when the receiver's Ack of an inbound packet's acknowledgement
\* number N deletes from the in-flight map, no entry is left for a sent
\* packet whose bytes all lie below N (its sequence number plus its payload
\* length is at most N).
C20_AckClearsCovered ==
    [][(thr[Receiver].pc = "ack_del" /\ thr'[Receiver].pc = "ack_ret")
          => \A s \in DOMAIN inFlight' :
                 s + Len(inFlight'[s].Payload) > thr[Receiver].num]_vars

====
